---- MODULE Spec2Model ----
(***************************************************************************)
(* State-machine model of the Smart Parking System (src/ds.c).             *)
(*                                                                         *)
(* The program is a single-threaded menu loop; every menu choice that      *)
(* changes state (Entry, Exit, Add Monthly Pass, Emergency) is one action. *)
(* The state is the set of C globals: the free-slot min-heap (heapArr,     *)
(* heapSize), the circular wait queue (waitQ, waitFront, waitRear,         *)
(* waitCount), the per-car tables (slotOfCar, entryTimeOfCar, passUser),   *)
(* the slot table (slotToCar), the history list and totalRevenue.          *)
(* The variable `last` records what the last handler was given and what it *)
(* reported (its printf output), so that properties can speak about it.    *)
(*                                                                         *)
(* Modelling decisions:                                                    *)
(*  - MAX_SLOTS, WAIT_CAP and MAX_CARS are scaled down; MAX_CARS is kept   *)
(*    larger than MAX_SLOTS + WAIT_CAP as in the program (100 > 10 + 10).  *)
(*  - time(NULL) is an input; clock holds the value it returned last. It   *)
(*    is positive. Under Spec it never goes backwards; under SpecSkew it   *)
(*    may (the code guards against a negative difference).                 *)
(*  - heapArr and waitQ hold the live cells of the C arrays only: cells     *)
(*    1..heapSize of the heap and the waitCount cells from waitFront of    *)
(*    the ring.  The code writes a cell outside the live part before it    *)
(*    reads it; a read of a dead cell would stop TLC with an error.        *)
(*  - malloc in addHistoryNode is taken to succeed.                        *)
(*  - the history list is unbounded in the program; the model stops        *)
(*    adding records at MaxHistory.                                        *)
(***************************************************************************)
EXTENDS Integers, Sequences, FiniteSets, TLC

\* ---- bounds (scaled-down program sizes) ----
MAX_SLOTS == 2
WAIT_CAP == 2
MAX_CARS == MAX_SLOTS + WAIT_CAP + 1
MaxHistory == 3

\* ---- program constant ----
FEE_PER_HOUR == 50

\* values time(NULL) may return
Times == {1, 3602}

\* car ids typed at the monthly-pass prompt: one valid car and both invalid sides
PassInputs == {-1, 0, MAX_CARS}

Cars == 0..(MAX_CARS - 1)
Slots == 1..MAX_SLOTS

VARIABLES heapArr, heapSize,
          waitQ, waitFront, waitRear, waitCount,
          slotOfCar, entryTimeOfCar, passUser, slotToCar,
          history, totalRevenue,
          clock, seen, last

heapVars == <<heapArr, heapSize>>
queueVars == <<waitQ, waitFront, waitRear, waitCount>>
coreVars == <<heapArr, heapSize, waitQ, waitFront, waitRear, waitCount,
              slotOfCar, entryTimeOfCar, passUser, slotToCar,
              history, totalRevenue>>
vars == <<heapArr, heapSize, waitQ, waitFront, waitRear, waitCount,
          slotOfCar, entryTimeOfCar, passUser, slotToCar,
          history, totalRevenue, clock, seen, last>>

\* ---------------------------------------------------------------------
\* Heap (min-heap of free slots), 1-based array
\* ---------------------------------------------------------------------
heapSwap(arr, i, j) == [arr EXCEPT ![i] = arr[j], ![j] = arr[i]]

RECURSIVE SiftUp(_, _)
SiftUp(arr, i) ==
    IF i > 1
    THEN LET parent == i \div 2 IN
         IF arr[parent] <= arr[i] THEN arr
         ELSE SiftUp(heapSwap(arr, parent, i), parent)
    ELSE arr

RECURSIVE SiftDown(_, _, _)
SiftDown(arr, size, i) ==
    LET l == 2 * i
        r == l + 1
        s1 == IF l <= size /\ arr[l] < arr[i] THEN l ELSE i
        smallest == IF r <= size /\ arr[r] < arr[s1] THEN r ELSE s1
    IN IF smallest = i THEN arr
       ELSE SiftDown(heapSwap(arr, i, smallest), size, smallest)

\* heapInsert without the sift-up loop
heapInsertNoSift(h, val) ==
    IF h.size >= MAX_SLOTS THEN h
    ELSE LET n == h.size + 1
         IN [arr |-> [i \in 1..n |-> IF i = n THEN val ELSE h.arr[i]], size |-> n]

\* h is [arr, size]; the result is the heap after the call
heapInsert(h, val) ==
    IF h.size >= MAX_SLOTS THEN h
    ELSE LET n == h.size + 1
             a1 == [i \in 1..n |-> IF i = n THEN val ELSE h.arr[i]]
         IN [arr |-> SiftUp(a1, n), size |-> n]

\* heapRemoveMin that returns the minimum and leaves it in the heap
heapRemoveMinKeep(h) ==
    IF h.size = 0 THEN [h |-> h, ret |-> -1]
    ELSE [h |-> h, ret |-> h.arr[1]]

\* heapRemoveMin that forgets to move the last cell to the root
heapRemoveMinNoMove(h) ==
    IF h.size = 0 THEN [h |-> h, ret |-> -1]
    ELSE LET n == h.size - 1
             a1 == [i \in 1..n |-> h.arr[i]]
         IN [h |-> [arr |-> SiftDown(a1, n, 1), size |-> n], ret |-> h.arr[1]]

\* the result is [h |-> heap after the call, ret |-> returned slot or -1]
heapRemoveMin(h) ==
    IF h.size = 0 THEN [h |-> h, ret |-> -1]
    ELSE LET n == h.size - 1
             a1 == [i \in 1..n |-> IF i = 1 THEN h.arr[h.size] ELSE h.arr[i]]
         IN [h |-> [arr |-> SiftDown(a1, n, 1), size |-> n], ret |-> h.arr[1]]

\* ---------------------------------------------------------------------
\* Waiting queue (circular)
\* ---------------------------------------------------------------------
\* enqueueWait that forgets waitCount++
enqueueWaitNoCount(w, car) ==
    IF w.count = WAIT_CAP THEN [w |-> w, ret |-> 0]
    ELSE LET rear == (w.rear + 1) % WAIT_CAP IN
         [w |-> [q |-> [i \in DOMAIN w.q \cup {rear} |->
                           IF i = rear THEN car ELSE w.q[i]],
                 front |-> IF w.count = 0 THEN rear ELSE w.front,
                 rear |-> rear,
                 count |-> w.count],
          ret |-> 1]

\* enqueueWait that puts the car in front of the queue instead of behind it
enqueueWaitFront(w, car) ==
    IF w.count = WAIT_CAP THEN [w |-> w, ret |-> 0]
    ELSE LET front == IF w.count = 0 THEN (w.rear + 1) % WAIT_CAP
                      ELSE (w.front + WAIT_CAP - 1) % WAIT_CAP
         IN
         [w |-> [q |-> [i \in DOMAIN w.q \cup {front} |->
                           IF i = front THEN car ELSE w.q[i]],
                 front |-> front,
                 rear |-> IF w.count = 0 THEN front ELSE w.rear,
                 count |-> w.count + 1],
          ret |-> 1]

\* w is [q, front, rear, count]; the result is [w |-> queue after, ret |-> 0/1]
enqueueWait(w, car) ==
    IF w.count = WAIT_CAP THEN [w |-> w, ret |-> 0]
    ELSE LET rear == (w.rear + 1) % WAIT_CAP IN
         [w |-> [q |-> [i \in DOMAIN w.q \cup {rear} |->
                           IF i = rear THEN car ELSE w.q[i]],
                 front |-> IF w.count = 0 THEN rear ELSE w.front,
                 rear |-> rear,
                 count |-> w.count + 1],
          ret |-> 1]

\* dequeueWait that takes the car at waitRear (last in, first out)
dequeueWaitRear(w) ==
    IF w.count = 0 THEN [w |-> w, ret |-> -1]
    ELSE LET c == w.q[w.rear]
             n == w.count - 1
         IN [w |-> [q |-> [i \in DOMAIN w.q \ {w.rear} |-> w.q[i]],
                    front |-> IF n = 0 THEN 0 ELSE w.front,
                    rear |-> IF n = 0 THEN -1 ELSE (w.rear + WAIT_CAP - 1) % WAIT_CAP,
                    count |-> n],
             ret |-> c]

\* dequeueWait that always reports an empty queue
dequeueWaitEmpty(w) == [w |-> w, ret |-> -1]

\* the result is [w |-> queue after, ret |-> dequeued car or -1]
dequeueWait(w) ==
    IF w.count = 0 THEN [w |-> w, ret |-> -1]
    ELSE LET c == w.q[w.front]
             n == w.count - 1
         IN [w |-> [q |-> [i \in DOMAIN w.q \ {w.front} |-> w.q[i]],
                    front |-> IF n = 0 THEN 0 ELSE (w.front + 1) % WAIT_CAP,
                    rear |-> IF n = 0 THEN -1 ELSE w.rear,
                    count |-> n],
             ret |-> c]

\* ---------------------------------------------------------------------
\* History (linked list, newest node first)
\* ---------------------------------------------------------------------
addHistoryNode(hist, car, slot, entry, exitT) ==
    <<[car |-> car, slot |-> slot, entryTime |-> entry, exitTime |-> exitT]>> \o hist

\* the scan taking the last open match of the list instead of the first
FirstOpenLast(hist, car, slot) ==
    LET m == {i \in 1..Len(hist) :
                 hist[i].car = car /\ hist[i].slot = slot /\ hist[i].exitTime = 0}
    IN IF m = {} THEN 0 ELSE CHOOSE i \in m : \A j \in m : i >= j

\* node of the list that vehicleExit closes: the first one from the head that
\* matches (car, slot) and is still open; 0 if the scan reaches the end
FirstOpen(hist, car, slot) ==
    LET m == {i \in 1..Len(hist) :
                 hist[i].car = car /\ hist[i].slot = slot /\ hist[i].exitTime = 0}
    IN IF m = {} THEN 0 ELSE CHOOSE i \in m : \A j \in m : i <= j

\* the scan without the exitTime == 0 test, writing the oldest match
closeHistoryNodeOldest(hist, car, slot, now) ==
    LET m == {i \in 1..Len(hist) : hist[i].car = car /\ hist[i].slot = slot}
    IN IF m = {} THEN hist
       ELSE [hist EXCEPT ![CHOOSE i \in m : \A j \in m : i >= j].exitTime = now]

closeHistoryNode(hist, car, slot, now) ==
    LET i == FirstOpen(hist, car, slot)
    IN IF i = 0 THEN hist ELSE [hist EXCEPT ![i].exitTime = now]

\* ---------------------------------------------------------------------
\* What a handler reports (the values its printf calls show)
\* ---------------------------------------------------------------------
Report(op, car, outcome) ==
    [op |-> op, car |-> car, outcome |-> outcome,
     now |-> 0, slot |-> 0, fee |-> 0, pos |-> 0, next |-> -1, now2 |-> 0]

\* ---------------------------------------------------------------------
\* System initialization
\* ---------------------------------------------------------------------
RECURSIVE FillHeap(_, _)
FillHeap(h, i) ==
    IF i > MAX_SLOTS THEN h ELSE FillHeap(heapInsert(h, i), i + 1)

Init ==
    LET h == FillHeap([arr |-> <<>>, size |-> 0], 1) IN
    /\ heapArr = h.arr
    /\ heapSize = h.size
    /\ slotOfCar = [c \in Cars |-> -1]
    /\ entryTimeOfCar = [c \in Cars |-> 0]
    /\ passUser = [c \in Cars |-> 0]
    /\ slotToCar = [s \in 0..MAX_SLOTS |-> -1]
    /\ waitQ = <<>>
    /\ waitFront = 0
    /\ waitRear = -1
    /\ waitCount = 0
    /\ totalRevenue = 0
    /\ history = <<>>
    /\ clock = 0
    /\ seen = 0
    /\ last = Report("Init", -1, "ok")

\* ---------------------------------------------------------------------
\* Emergency and monthly pass
\* ---------------------------------------------------------------------
\* emergencyMode that also zeroes totalRevenue, as initSystem does
emergencyModeZeroRevenue ==
    LET h == FillHeap([arr |-> <<>>, size |-> 0], 1) IN
    /\ slotOfCar' = [c \in Cars |-> -1]
    /\ entryTimeOfCar' = [c \in Cars |-> 0]
    /\ slotToCar' = [s \in 0..MAX_SLOTS |-> IF s >= 1 THEN -1 ELSE slotToCar[s]]
    /\ heapArr' = h.arr
    /\ heapSize' = h.size
    /\ waitFront' = 0
    /\ waitRear' = -1
    /\ waitCount' = 0
    /\ waitQ' = <<>>
    /\ totalRevenue' = 0
    /\ UNCHANGED <<passUser, history, clock>>
    /\ last' = Report("Emergency", -1, "ok")

\* emergencyMode that also frees the history list, as initSystem does
emergencyModeFreeHistory ==
    LET h == FillHeap([arr |-> <<>>, size |-> 0], 1) IN
    /\ slotOfCar' = [c \in Cars |-> -1]
    /\ entryTimeOfCar' = [c \in Cars |-> 0]
    /\ slotToCar' = [s \in 0..MAX_SLOTS |-> IF s >= 1 THEN -1 ELSE slotToCar[s]]
    /\ heapArr' = h.arr
    /\ heapSize' = h.size
    /\ waitFront' = 0
    /\ waitRear' = -1
    /\ waitCount' = 0
    /\ waitQ' = <<>>
    /\ history' = <<>>
    /\ UNCHANGED <<passUser, totalRevenue, clock>>
    /\ last' = Report("Emergency", -1, "ok")

\* emergencyMode that also clears the pass flags, as initSystem does
emergencyModeClearPass ==
    LET h == FillHeap([arr |-> <<>>, size |-> 0], 1) IN
    /\ slotOfCar' = [c \in Cars |-> -1]
    /\ entryTimeOfCar' = [c \in Cars |-> 0]
    /\ passUser' = [c \in Cars |-> 0]
    /\ slotToCar' = [s \in 0..MAX_SLOTS |-> IF s >= 1 THEN -1 ELSE slotToCar[s]]
    /\ heapArr' = h.arr
    /\ heapSize' = h.size
    /\ waitFront' = 0
    /\ waitRear' = -1
    /\ waitCount' = 0
    /\ waitQ' = <<>>
    /\ UNCHANGED <<totalRevenue, history, clock>>
    /\ last' = Report("Emergency", -1, "ok")

\* emergencyMode that forgets the waiting queue
emergencyModeKeepQueue ==
    LET h == FillHeap([arr |-> <<>>, size |-> 0], 1) IN
    /\ slotOfCar' = [c \in Cars |-> IF slotOfCar[c] = -2 THEN -2 ELSE -1]
    /\ entryTimeOfCar' = [c \in Cars |-> 0]
    /\ slotToCar' = [s \in 0..MAX_SLOTS |-> IF s >= 1 THEN -1 ELSE slotToCar[s]]
    /\ heapArr' = h.arr
    /\ heapSize' = h.size
    /\ UNCHANGED <<queueVars, passUser, totalRevenue, history, clock>>
    /\ last' = Report("Emergency", -1, "ok")

emergencyMode ==
    LET h == FillHeap([arr |-> <<>>, size |-> 0], 1) IN
    /\ slotOfCar' = [c \in Cars |-> -1]
    /\ entryTimeOfCar' = [c \in Cars |-> 0]
    /\ slotToCar' = [s \in 0..MAX_SLOTS |-> IF s >= 1 THEN -1 ELSE slotToCar[s]]
    /\ heapArr' = h.arr
    /\ heapSize' = h.size
    /\ waitFront' = 0
    /\ waitRear' = -1
    /\ waitCount' = 0
    /\ waitQ' = <<>>
    /\ UNCHANGED <<passUser, totalRevenue, history, clock>>
    /\ last' = Report("Emergency", -1, "ok")

addMonthlyPass(car) ==
    IF car < 0 \/ car >= MAX_CARS
    THEN /\ UNCHANGED <<coreVars, clock>>
         /\ last' = Report("Pass", car, "Invalid")
    ELSE /\ passUser' = [passUser EXCEPT ![car] = 1]
         /\ UNCHANGED <<heapVars, queueVars, slotOfCar, entryTimeOfCar, slotToCar,
                        history, totalRevenue, clock>>
         /\ last' = Report("Pass", car, "ok")

\* ---------------------------------------------------------------------
\* Entry
\* ---------------------------------------------------------------------
\* canEnter without the test for a car that is already waiting
canEnterNoWaitTest(car) ==
    IF car < 0 \/ car >= MAX_CARS THEN "Invalid"
    ELSE IF slotOfCar[car] >= 1 THEN "DuplicateParked"
    ELSE "ok"

canEnter(car) ==
    IF car < 0 \/ car >= MAX_CARS THEN "Invalid"
    ELSE IF slotOfCar[car] >= 1 THEN "DuplicateParked"
    ELSE IF slotOfCar[car] = -2 THEN "DuplicateWaiting"
    ELSE "ok"

\* the full test off by one
waitFullOffByOne == waitCount > WAIT_CAP

\* the test that guards the "Parking & Waiting FULL!" return
waitFull == waitCount = WAIT_CAP

\* ok: read_int parsed an integer; car: that integer; now: time(NULL)
vehicleEntry(ok, car, now) ==
    IF ~ok
    THEN /\ UNCHANGED <<coreVars, clock>>
         /\ last' = Report("Entry", -1, "InvalidInput")
    ELSE IF canEnter(car) # "ok"
    THEN /\ UNCHANGED <<coreVars, clock>>
         /\ last' = Report("Entry", car, canEnter(car))
    ELSE
    LET rm == heapRemoveMin([arr |-> heapArr, size |-> heapSize])
        slot == rm.ret
        w == [q |-> waitQ, front |-> waitFront, rear |-> waitRear, count |-> waitCount]
        enq == enqueueWait(w, car)
    IN
    /\ heapArr' = rm.h.arr
    /\ heapSize' = rm.h.size
    /\ IF slot = -1
       THEN IF waitFull
            THEN /\ UNCHANGED <<queueVars, slotOfCar, entryTimeOfCar, slotToCar, history, clock>>
                 /\ last' = Report("Entry", car, "Full")
            ELSE IF enq.ret = 0
            THEN /\ UNCHANGED <<queueVars, slotOfCar, entryTimeOfCar, slotToCar, history, clock>>
                 /\ last' = Report("Entry", car, "UnableToJoin")
            ELSE /\ waitQ' = enq.w.q
                 /\ waitFront' = enq.w.front
                 /\ waitRear' = enq.w.rear
                 /\ waitCount' = enq.w.count
                 /\ slotOfCar' = [slotOfCar EXCEPT ![car] = -2]
                 /\ UNCHANGED <<entryTimeOfCar, slotToCar, history, clock>>
                 /\ last' = [Report("Entry", car, "Queued") EXCEPT !.pos = enq.w.count]
       ELSE /\ slotOfCar' = [slotOfCar EXCEPT ![car] = slot]
            /\ entryTimeOfCar' = [entryTimeOfCar EXCEPT ![car] = now]
            /\ slotToCar' = [slotToCar EXCEPT ![slot] = car]
            /\ history' = addHistoryNode(history, car, slot, now, 0)
            /\ clock' = now
            /\ UNCHANGED queueVars
            /\ last' = [Report("Entry", car, "Parked") EXCEPT !.slot = slot, !.now = now]
    /\ UNCHANGED <<passUser, totalRevenue>>

\* ---------------------------------------------------------------------
\* Exit
\* ---------------------------------------------------------------------
\* the first loop with the else dropped: the leaving car is collected too
RECURSIVE DrainWaitNoElse(_, _, _, _, _)
DrainWaitNoElse(w, i, car, tmp, removed) ==
    IF i = 0 THEN [w |-> w, tmp |-> tmp, removed |-> removed]
    ELSE LET d == dequeueWait(w) IN
         IF d.ret = car
         THEN DrainWaitNoElse(d.w, i - 1, car, Append(tmp, d.ret), 1)
         ELSE DrainWaitNoElse(d.w, i - 1, car, Append(tmp, d.ret), removed)

\* the first loop without removed = 1: the leaving car is never reported found
RECURSIVE DrainWaitNoFlag(_, _, _, _, _)
DrainWaitNoFlag(w, i, car, tmp, removed) ==
    IF i = 0 THEN [w |-> w, tmp |-> tmp, removed |-> removed]
    ELSE LET d == dequeueWait(w) IN
         IF d.ret = car
         THEN DrainWaitNoFlag(d.w, i - 1, car, tmp, removed)
         ELSE DrainWaitNoFlag(d.w, i - 1, car, Append(tmp, d.ret), removed)

\* first loop of the waiting branch: origCount dequeues from queue w, the cars
\* other than `car` collected in tmp; i counts the iterations still to run
RECURSIVE DrainWait(_, _, _, _, _)
DrainWait(w, i, car, tmp, removed) ==
    IF i = 0 THEN [w |-> w, tmp |-> tmp, removed |-> removed]
    ELSE LET d == dequeueWait(w) IN
         IF d.ret = car
         THEN DrainWait(d.w, i - 1, car, tmp, 1)
         ELSE DrainWait(d.w, i - 1, car, Append(tmp, d.ret), removed)

\* second loop of the waiting branch: the collected cars are enqueued again
RECURSIVE RefillWait(_, _)
RefillWait(w, tmp) ==
    IF tmp = <<>> THEN w
    ELSE RefillWait(enqueueWait(w, Head(tmp)).w, Tail(tmp))

\* the fee with the hours rounded down instead of up
exitFeeFloor(now, entry, pass) ==
    LET diff == IF now - entry < 0 THEN 0 ELSE now - entry
        secs == diff
        ch == secs \div 3600
        charged_hours == IF ch < 0 THEN 0 ELSE ch
    IN IF pass # 0 THEN 0 ELSE charged_hours * FEE_PER_HOUR

\* fee of a stay from `entry` to `now`; pass is passUser[car]
exitFee(now, entry, pass) ==
    LET diff == IF now - entry < 0 THEN 0 ELSE now - entry
        secs == diff
        ch == (secs + 3599) \div 3600
        charged_hours == IF ch < 0 THEN 0 ELSE ch
    IN IF pass # 0 THEN 0 ELSE charged_hours * FEE_PER_HOUR

\* the exit that forgets to give the vacated slot back to the heap
releaseSlotForgotten(h, slot) == h

\* the vacated slot goes back to the free-slot heap before the promotion
releaseSlot(h, slot) == heapInsert(h, slot)

\* ok: read_int parsed an integer; car: that integer; now, now2: the two
\* readings of time(NULL), at the exit and at the promotion
vehicleExit(ok, car, now, now2) ==
    IF ~ok
    THEN /\ UNCHANGED <<coreVars, clock>>
         /\ last' = Report("Exit", -1, "InvalidInput")
    ELSE IF car < 0 \/ car >= MAX_CARS
    THEN /\ UNCHANGED <<coreVars, clock>>
         /\ last' = Report("Exit", car, "InvalidId")
    ELSE IF slotOfCar[car] = -1
    THEN /\ UNCHANGED <<coreVars, clock>>
         /\ last' = Report("Exit", car, "NotParked")
    ELSE IF slotOfCar[car] = -2
    THEN LET w == [q |-> waitQ, front |-> waitFront, rear |-> waitRear,
                   count |-> waitCount]
             d == DrainWait(w, waitCount, car, <<>>, 0)
             w2 == RefillWait(d.w, d.tmp)
         IN /\ waitQ' = w2.q
            /\ waitFront' = w2.front
            /\ waitRear' = w2.rear
            /\ waitCount' = w2.count
            /\ slotOfCar' = IF d.removed = 1 THEN [slotOfCar EXCEPT ![car] = -1]
                            ELSE slotOfCar
            /\ UNCHANGED <<heapVars, entryTimeOfCar, passUser, slotToCar,
                           history, totalRevenue, clock>>
            /\ last' = Report("Exit", car,
                              IF d.removed = 1 THEN "RemovedFromQueue"
                              ELSE "NotFoundInQueue")
    ELSE LET slot == slotOfCar[car]
             entry == entryTimeOfCar[car]
             fee == exitFee(now, entry, passUser[car])
             hist1 == closeHistoryNode(history, car, slot, now)
             \* free slot
             soc1 == [slotOfCar EXCEPT ![car] = -1]
             et1 == [entryTimeOfCar EXCEPT ![car] = 0]
             stc1 == [slotToCar EXCEPT ![slot] = -1]
             h1 == releaseSlot([arr |-> heapArr, size |-> heapSize], slot)
             \* allocate to next waiting car immediately (if any)
             w == [q |-> waitQ, front |-> waitFront, rear |-> waitRear,
                   count |-> waitCount]
             deq == dequeueWait(w)
             next == deq.ret
             rm == heapRemoveMin(h1)
             newSlot == rm.ret
             promote == waitCount > 0 /\ next >= 0 /\ next < MAX_CARS
             w2 == IF waitCount > 0
                   THEN IF promote /\ newSlot = -1 THEN enqueueWait(deq.w, next).w
                        ELSE deq.w
                   ELSE w
             h2 == IF promote THEN rm.h ELSE h1
             assigned == promote /\ newSlot # -1
         IN /\ totalRevenue' = totalRevenue + fee
            /\ history' = IF assigned
                          THEN addHistoryNode(hist1, next, newSlot, now2, 0)
                          ELSE hist1
            /\ slotOfCar' = IF assigned THEN [soc1 EXCEPT ![next] = newSlot] ELSE soc1
            /\ entryTimeOfCar' = IF assigned THEN [et1 EXCEPT ![next] = now2] ELSE et1
            /\ slotToCar' = IF assigned THEN [stc1 EXCEPT ![newSlot] = next] ELSE stc1
            /\ heapArr' = h2.arr
            /\ heapSize' = h2.size
            /\ waitQ' = w2.q
            /\ waitFront' = w2.front
            /\ waitRear' = w2.rear
            /\ waitCount' = w2.count
            /\ UNCHANGED passUser
            /\ clock' = IF assigned THEN now2 ELSE now
            /\ last' = [Report("Exit", car, "Exited") EXCEPT
                          !.now = now, !.slot = slot, !.fee = fee,
                          !.next = IF assigned THEN next ELSE -1,
                          !.pos = IF assigned THEN newSlot ELSE 0,
                          !.now2 = IF assigned THEN now2 ELSE 0]

\* ---------------------------------------------------------------------
\* The menu loop
\* ---------------------------------------------------------------------
\* time(NULL) is read only on the paths that park or release a car; on the
\* other paths the handler never looks at the clock
EntryReadsClock(car) == canEnter(car) = "ok" /\ heapSize > 0

ExitReadsClock(car) == car \in Cars /\ slotOfCar[car] >= 1

\* the values time(NULL) may return after it returned t: a clock that does not
\* go backwards
Later(t) == {u \in Times : u >= t}

\* Integers the operator may type as a car id: both out-of-range sides, every
\* car that has been in the facility, and one car that has not.  The code
\* uses an in-range id only as an array index and in equality tests, so ids
\* are interchangeable and new cars are taken to arrive in id order; seen is
\* the number of cars that have been parked or queued so far.
CarInputs == {-1, MAX_CARS} \cup {c \in Cars : c <= seen}

Arrived(car) == car \in Cars /\ car = seen /\ slotOfCar'[car] # -1

Entry ==
    \/ /\ vehicleEntry(FALSE, 0, 0)
       /\ UNCHANGED seen
    \/ \E car \in CarInputs :
         \E now \in IF EntryReadsClock(car) THEN Later(clock) ELSE {0} :
            /\ vehicleEntry(TRUE, car, now)
            /\ Len(history') <= MaxHistory
            /\ seen' = IF Arrived(car) THEN seen + 1 ELSE seen

Exit ==
    \/ /\ vehicleExit(FALSE, 0, 0, 0)
       /\ UNCHANGED seen
    \/ \E car \in CarInputs :
         \E now \in IF ExitReadsClock(car) THEN Later(clock) ELSE {0} :
            \E now2 \in IF ExitReadsClock(car) /\ waitCount > 0
                        THEN Later(now) ELSE {0} :
               /\ vehicleExit(TRUE, car, now, now2)
               /\ Len(history') <= MaxHistory
               /\ UNCHANGED seen

RegisterMonthlyPass ==
    /\ \E car \in PassInputs : addMonthlyPass(car)
    /\ UNCHANGED seen

EmergencyReset == emergencyMode /\ UNCHANGED seen

Next == Entry \/ Exit \/ RegisterMonthlyPass \/ EmergencyReset

Spec == Init /\ [][Next]_vars

\* ---------------------------------------------------------------------
\* The same program under a clock that may also be set back between two
\* readings; one car keeps this state space small
\* ---------------------------------------------------------------------
SkewTimes == {1, 3601, 3602}

SkewCars == {0}

EntrySkew ==
    \E car \in SkewCars :
       \E now \in IF EntryReadsClock(car) THEN SkewTimes ELSE {0} :
          /\ vehicleEntry(TRUE, car, now)
          /\ Len(history') <= MaxHistory
          /\ seen' = IF Arrived(car) THEN seen + 1 ELSE seen

ExitSkew ==
    \E car \in SkewCars :
       \E now \in IF ExitReadsClock(car) THEN SkewTimes ELSE {0} :
          \E now2 \in IF ExitReadsClock(car) /\ waitCount > 0 THEN SkewTimes ELSE {0} :
             /\ vehicleExit(TRUE, car, now, now2)
             /\ Len(history') <= MaxHistory
             /\ UNCHANGED seen

NextSkew == EntrySkew \/ ExitSkew \/ RegisterMonthlyPass

SpecSkew == Init /\ [][NextSkew]_vars

\* ---------------------------------------------------------------------
\* The menu loop while parked cars keep leaving: no emergency reset, and no
\* car leaves the queue by itself.  The operator's Exit of a parked car is
\* taken to be weakly fair.  A car is let in only while the history bound
\* leaves room for one record per car that waits, so the bound never stops
\* an exit.
\* ---------------------------------------------------------------------
LiveHistory == MAX_SLOTS + WAIT_CAP

EntryLive ==
    \E car \in CarInputs :
       \E now \in IF EntryReadsClock(car) THEN Later(clock) ELSE {0} :
          /\ vehicleEntry(TRUE, car, now)
          /\ Len(history') + waitCount' <= LiveHistory
          /\ seen' = IF Arrived(car) THEN seen + 1 ELSE seen

ExitParked ==
    \E car \in {c \in Cars : slotOfCar[c] >= 1} :
       \E now \in Later(clock) :
          \E now2 \in IF waitCount > 0 THEN Later(now) ELSE {0} :
             /\ vehicleExit(TRUE, car, now, now2)
             /\ UNCHANGED seen

ExitRejected ==
    \E car \in {c \in CarInputs : c \notin Cars \/ slotOfCar[c] = -1} :
       /\ vehicleExit(TRUE, car, 0, 0)
       /\ UNCHANGED seen

NextLive == EntryLive \/ ExitParked \/ ExitRejected \/ RegisterMonthlyPass

SpecLive == Init /\ [][NextLive]_vars /\ WF_vars(ExitParked)

\* ---------------------------------------------------------------------
\* Abstractions used by the properties
\* ---------------------------------------------------------------------
\* the wait queue as a sequence, front first
WaitSeq == [i \in 1..waitCount |-> waitQ[(waitFront + i - 1) % WAIT_CAP]]

\* the set of free slots held by the heap
FreeSet == {heapArr[i] : i \in 1..heapSize}

TypeOK ==
    /\ heapSize \in 0..MAX_SLOTS
    /\ waitCount \in 0..WAIT_CAP
    /\ \A c \in Cars : slotOfCar[c] \in {-2, -1} \cup Slots
    /\ Len(history) <= MaxHistory

\* slots that the slot table shows as empty
FreeSlots == {s \in Slots : slotToCar[s] = -1}

MinOf(S) == CHOOSE x \in S : \A y \in S : x <= y

\* seq without the elements equal to c, order kept
Without(seq, c) == SelectSeq(seq, LAMBDA x : x # c)

\* the step just taken was handler op called with car id c
Called(op, c) == last'.op = op /\ last'.car = c /\ last'.outcome # "InvalidInput"

OpenRecord(c, s, t) == [car |-> c, slot |-> s, entryTime |-> t, exitTime |-> 0]

\* ---------------------------------------------------------------------
\* C1: in every reachable state, slot s records occupant v exactly when
\* vehicle v records slot s; so occupied slots and parked vehicles are in
\* one-to-one correspondence and no two vehicles hold the same slot.
\* ---------------------------------------------------------------------
C1_SlotCarBijection ==
    /\ \A s \in Slots : \A v \in Cars : (slotToCar[s] = v) <=> (slotOfCar[v] = s)
    /\ \A v1 \in Cars : \A v2 \in Cars :
          (slotOfCar[v1] >= 1 /\ slotOfCar[v1] = slotOfCar[v2]) => v1 = v2
    /\ \A s \in Slots : slotToCar[s] \in Cars \cup {-1}

\* a promotion has just refilled a slot while every slot is taken
C1_Witness ==
    /\ last.op = "Exit" /\ last.next # -1
    /\ \A s \in Slots : slotToCar[s] # -1
    /\ slotToCar[last.slot] = last.next

\* ---------------------------------------------------------------------
\* C2: Entry of an Absent in-range vehicle while a slot is free parks it in
\* the smallest-numbered free slot, sets its entry time to the call time and
\* adds exactly one new open history record for (vehicle, slot).
\* ---------------------------------------------------------------------
C2_EntryTakesSmallestFree ==
    [][\A c \in Cars :
         (Called("Entry", c) /\ slotOfCar[c] = -1 /\ FreeSlots # {}) =>
            LET s == MinOf(FreeSlots) IN
            /\ last'.outcome = "Parked"
            /\ last'.slot = s
            /\ slotOfCar' = [slotOfCar EXCEPT ![c] = s]
            /\ slotToCar' = [slotToCar EXCEPT ![s] = c]
            /\ entryTimeOfCar' = [entryTimeOfCar EXCEPT ![c] = clock']
            /\ last'.now = clock'
            /\ history' = <<OpenRecord(c, s, clock')>> \o history
      ]_vars

\* slot 1 was freed while slot 2 stayed taken, and the next Entry got slot 1
C2_Witness ==
    /\ last.op = "Entry" /\ last.outcome = "Parked" /\ last.slot = 1
    /\ slotToCar[2] # -1
    /\ Len(history) >= 3

\* ---------------------------------------------------------------------
\* C3: Exit of a Parked vehicle while the wait queue is non-empty parks the
\* front vehicle of the queue in the slot just vacated, adds a new open
\* history record for it, and leaves the queue as the previous queue minus
\* its front, in the same order.
\* ---------------------------------------------------------------------
C3_ExitPromotesFront ==
    [][\A c \in Cars :
         (Called("Exit", c) /\ slotOfCar[c] >= 1 /\ waitCount > 0) =>
            LET s == slotOfCar[c]
                f == WaitSeq[1]
            IN /\ last'.next = f
               /\ slotOfCar'[f] = s
               /\ slotToCar'[s] = f
               /\ slotOfCar'[c] = -1
               /\ Len(history') = Len(history) + 1
               /\ history'[1] = OpenRecord(f, s, clock')
               /\ WaitSeq' = Tail(WaitSeq)
      ]_vars

\* the front of a queue of two was promoted and the other one still waits
C3_Witness ==
    /\ last.op = "Exit" /\ last.outcome = "Exited" /\ last.next # -1
    /\ waitCount = 1
    /\ slotOfCar[last.next] = last.slot

\* ---------------------------------------------------------------------
\* C4: Entry of an Absent in-range vehicle while no slot is free and the
\* queue holds fewer than WAIT_CAP vehicles appends it at the back of the
\* queue, makes it Waiting, reports the queue size after the append as its
\* position, and leaves slot map, free pool, revenue and history unchanged.
\* ---------------------------------------------------------------------
C4_EntryQueuesAtBack ==
    [][\A c \in Cars :
         (Called("Entry", c) /\ slotOfCar[c] = -1 /\ FreeSlots = {}
                             /\ waitCount < WAIT_CAP) =>
            /\ last'.outcome = "Queued"
            /\ WaitSeq' = Append(WaitSeq, c)
            /\ slotOfCar' = [slotOfCar EXCEPT ![c] = -2]
            /\ last'.pos = Len(WaitSeq')
            /\ last'.pos = waitCount'
            /\ UNCHANGED <<slotToCar, heapArr, heapSize, totalRevenue, history>>
      ]_vars

\* a second car has joined the queue behind the first
C4_Witness ==
    /\ last.op = "Entry" /\ last.outcome = "Queued" /\ last.pos = 2
    /\ WaitSeq[2] = last.car

\* ---------------------------------------------------------------------
\* C5: Entry of an Absent vehicle while no slot is free and the queue is at
\* WAIT_CAP is rejected as full; the vehicle stays Absent and the whole
\* state is the state before the call.
\* ---------------------------------------------------------------------
C5_FullEntryRejected ==
    [][\A c \in Cars :
         (Called("Entry", c) /\ slotOfCar[c] = -1 /\ FreeSlots = {}
                             /\ waitCount = WAIT_CAP) =>
            /\ last'.outcome = "Full"
            /\ slotOfCar'[c] = -1
            /\ UNCHANGED coreVars
      ]_vars

\* a car was turned away with every slot taken and the queue full
C5_Witness ==
    /\ last.op = "Entry" /\ last.outcome = "Full"
    /\ slotOfCar[last.car] = -1
    /\ FreeSlots = {} /\ waitCount = WAIT_CAP

\* ---------------------------------------------------------------------
\* C6: the fee of an Exit of a Parked vehicle with entry time e at time now
\* is 0 for a holder of a monthly pass and otherwise FEE_PER_HOUR times the
\* ceiling of max(now - e, 0) / 3600: 3600 s cost 50, 3601 s cost 100 and a
\* zero or negative elapsed time costs 0.
\* ---------------------------------------------------------------------
\* ceiling of a / b for a >= 0, b > 0, by its defining inequalities
CeilDiv(a, b) == CHOOSE k \in 0..a : k * b >= a /\ (k - 1) * b < a

NonNeg(x) == IF x < 0 THEN 0 ELSE x

C6_ExitFee ==
    [][\A c \in Cars :
         (Called("Exit", c) /\ slotOfCar[c] >= 1) =>
            LET e == entryTimeOfCar[c]
                now == last'.now
                elapsed == now - e
            IN /\ now = clock'
               /\ passUser[c] = 1 => last'.fee = 0
               /\ passUser[c] = 0 =>
                     /\ last'.fee = FEE_PER_HOUR * CeilDiv(NonNeg(elapsed), 3600)
                     /\ elapsed = 3600 => last'.fee = 50
                     /\ elapsed = 3601 => last'.fee = 100
                     /\ elapsed <= 0 => last'.fee = 0
      ]_vars

\* a stay of 3601 s without a pass has been charged two hours
C6_Witness ==
    /\ last.op = "Exit" /\ last.outcome = "Exited"
    /\ last.fee = 100
    /\ history # <<>>
    /\ \E i \in 1..Len(history) :
          /\ history[i].car = last.car
          /\ history[i].exitTime = last.now
          /\ history[i].exitTime - history[i].entryTime = 3601

\* ---------------------------------------------------------------------
\* C7: total revenue never decreases; it changes only in an Exit of a
\* Parked vehicle, where it grows by exactly that exit's fee; every other
\* operation and every rejected operation leaves it unchanged.
\* ---------------------------------------------------------------------
C7_RevenueMonotone ==
    [][/\ totalRevenue' >= totalRevenue
       /\ (last'.op = "Exit" /\ last'.outcome = "Exited")
             => (last'.fee >= 0 /\ totalRevenue' = totalRevenue + last'.fee)
       /\ ~(last'.op = "Exit" /\ last'.outcome = "Exited")
             => totalRevenue' = totalRevenue
       /\ \A c \in Cars : (Called("Exit", c) /\ slotOfCar[c] < 1)
             => totalRevenue' = totalRevenue
      ]_vars

\* a second paid exit has added its fee to the revenue of the first
C7_Witness ==
    /\ last.op = "Exit" /\ last.outcome = "Exited"
    /\ last.fee > 0
    /\ totalRevenue > last.fee

\* ---------------------------------------------------------------------
\* C8: Exit of a Waiting vehicle, at any position of the queue, makes it
\* Absent and removes it from the queue; the other waiting vehicles keep
\* their order, the queue size drops by one, and revenue, history, slot map,
\* free pool and the status of every other vehicle are unchanged.
\* ---------------------------------------------------------------------
C8_WaitingExitRemoves ==
    [][\A c \in Cars :
         (Called("Exit", c) /\ slotOfCar[c] = -2) =>
            /\ last'.outcome = "RemovedFromQueue"
            /\ slotOfCar' = [slotOfCar EXCEPT ![c] = -1]
            /\ WaitSeq' = Without(WaitSeq, c)
            /\ waitCount' = waitCount - 1
            /\ last'.fee = 0 /\ last'.next = -1
            /\ UNCHANGED <<totalRevenue, history, slotToCar, heapArr, heapSize,
                           entryTimeOfCar>>
      ]_vars

\* the front car of a queue of two has left; the car behind it still waits
C8_Witness ==
    /\ last.op = "Exit" /\ last.outcome = "RemovedFromQueue"
    /\ waitCount = 1
    /\ WaitSeq[1] > last.car
    /\ slotOfCar[last.car] = -1

\* ---------------------------------------------------------------------
\* C9: after EmergencyReset every vehicle is Absent, every slot is empty,
\* the free pool is exactly 1..MAX_SLOTS and the wait queue is empty, while
\* total revenue and the history are what they were before the reset.
\* ---------------------------------------------------------------------
C9_EmergencyResets ==
    [][last'.op = "Emergency" =>
          /\ \A c \in Cars : slotOfCar'[c] = -1
          /\ \A s \in Slots : slotToCar'[s] = -1
          /\ heapSize' = MAX_SLOTS
          /\ FreeSet' = Slots
          /\ waitCount' = 0
          /\ WaitSeq' = <<>>
          /\ totalRevenue' = totalRevenue
          /\ history' = history
      ]_vars

\* the reset came with a car parked, a closed record and an open one
C9_Witness ==
    /\ last.op = "Emergency"
    /\ \E i \in 1..Len(history) : history[i].exitTime = 0
    /\ \E i \in 1..Len(history) : history[i].exitTime # 0

\* ---------------------------------------------------------------------
\* C10: a rejected Entry or Exit leaves the whole state unchanged: Entry of
\* a Parked or Waiting vehicle, Exit of an Absent vehicle, and Entry or Exit
\* with an id outside 0..MAX_CARS-1.
\* ---------------------------------------------------------------------
C10_RejectedLeavesState ==
    [][/\ \A c \in Cars :
            /\ (Called("Entry", c) /\ slotOfCar[c] >= 1)
                  => (last'.outcome = "DuplicateParked" /\ UNCHANGED coreVars)
            /\ (Called("Entry", c) /\ slotOfCar[c] = -2)
                  => (last'.outcome = "DuplicateWaiting" /\ UNCHANGED coreVars)
            /\ (Called("Exit", c) /\ slotOfCar[c] = -1)
                  => (last'.outcome = "NotParked" /\ UNCHANGED coreVars)
       /\ \A c \in {-1, MAX_CARS} :
            /\ Called("Entry", c)
                  => (last'.outcome = "Invalid" /\ UNCHANGED coreVars)
            /\ Called("Exit", c)
                  => (last'.outcome = "InvalidId" /\ UNCHANGED coreVars)
      ]_vars

\* a waiting car asked to enter again, after the facility has earned money
C10_Witness ==
    /\ last.op = "Entry" /\ last.outcome = "DuplicateWaiting"
    /\ slotOfCar[last.car] = -2
    /\ totalRevenue > 0

\* ---------------------------------------------------------------------
\* C11: RegisterMonthlyPass is idempotent and permanent: it sets the flag of
\* its vehicle and changes nothing else, a second call changes nothing at
\* all, and no later Entry, Exit or EmergencyReset clears a flag.
\* ---------------------------------------------------------------------
C11_PassIdempotentPermanent ==
    [][/\ \A c \in Cars : passUser[c] = 1 => passUser'[c] = 1
       /\ last'.op # "Pass" => passUser' = passUser
       /\ \A c \in Cars :
             Called("Pass", c) =>
                /\ last'.outcome = "ok"
                /\ passUser' = [passUser EXCEPT ![c] = 1]
                /\ UNCHANGED <<heapArr, heapSize, waitQ, waitFront, waitRear,
                               waitCount, slotOfCar, entryTimeOfCar, slotToCar,
                               history, totalRevenue>>
                /\ passUser[c] = 1 => UNCHANGED coreVars
      ]_vars

\* the holder of a pass has parked and left, and an emergency reset followed
C11_Witness ==
    /\ passUser[0] = 1
    /\ last.op = "Emergency"
    /\ \E i \in 1..Len(history) :
          /\ history[i].car = 0
          /\ history[i].exitTime # 0
          /\ totalRevenue = 0

\* ---------------------------------------------------------------------
\* C12: in every reachable state the free-slot heap holds exactly the slots
\* of 1..N without an occupant, each once; free and occupied slots are
\* disjoint and together make 1..N; heapSize plus the number of parked
\* vehicles is N.
\* ---------------------------------------------------------------------
OccupiedSlots == {s \in Slots : slotToCar[s] # -1}

ParkedCars == {c \in Cars : slotOfCar[c] >= 1}

C12_HeapIsFreeSet ==
    /\ DOMAIN heapArr = 1..heapSize
    /\ FreeSet = Slots \ OccupiedSlots
    /\ \A i, j \in 1..heapSize : heapArr[i] = heapArr[j] => i = j
    /\ FreeSet \cap OccupiedSlots = {}
    /\ FreeSet \cup OccupiedSlots = Slots
    /\ heapSize + Cardinality(ParkedCars) = MAX_SLOTS

\* one slot free and one taken, after an exit that released the lower slot
C12_Witness ==
    /\ heapSize = 1
    /\ heapArr[1] = 1
    /\ slotToCar[2] # -1
    /\ last.op = "Exit"
    /\ last.outcome = "Exited"
    /\ last.slot = 1

\* ---------------------------------------------------------------------
\* C13: in every reachable state the wait queue holds exactly the vehicles
\* whose status is Waiting, each once, and at most WAIT_CAP of them; a
\* queued vehicle is neither Parked nor Absent, and Exit of a Waiting
\* vehicle always finds it in the queue.
\* ---------------------------------------------------------------------
WaitingCars == {c \in Cars : slotOfCar[c] = -2}

C13_QueueIsWaitingSet ==
    /\ waitCount \in 0..WAIT_CAP
    /\ {WaitSeq[i] : i \in 1..waitCount} = WaitingCars
    /\ \A i, j \in 1..waitCount : WaitSeq[i] = WaitSeq[j] => i = j
    /\ \A i \in 1..waitCount : WaitSeq[i] \in Cars /\ slotOfCar[WaitSeq[i]] = -2
    /\ last.op = "Exit" => last.outcome # "NotFoundInQueue"

\* a full queue from which the car at the back has just left
C13_Witness ==
    /\ last.op = "Exit"
    /\ last.outcome = "RemovedFromQueue"
    /\ waitCount = WAIT_CAP - 1
    /\ waitCount > 0
    /\ last.car > WaitSeq[waitCount]

\* ---------------------------------------------------------------------
\* C14: the history is append-only: no operation, EmergencyReset included,
\* removes or reorders a record or changes its vehicle, slot or entry time;
\* an exit time changes only from unset to set, and a closed record never
\* changes again.  (New records are added at the head, so an old record at
\* index i is found at index i + k after k records were added.)
\* ---------------------------------------------------------------------
C14_HistoryAppendOnly ==
    [][LET k == Len(history') - Len(history) IN
       /\ k >= 0
       /\ \A i \in 1..Len(history) :
             /\ history'[i + k].car = history[i].car
             /\ history'[i + k].slot = history[i].slot
             /\ history'[i + k].entryTime = history[i].entryTime
             /\ \/ history'[i + k].exitTime = history[i].exitTime
                \/ history[i].exitTime = 0 /\ history'[i + k].exitTime # 0
       /\ last'.op \in {"Emergency", "Pass"} => history' = history
      ]_vars

\* an exit with promotion: the oldest record is closed in the same step that
\* adds a record at the head, and the record in between stays open
C14_Witness ==
    /\ last.op = "Exit"
    /\ last.outcome = "Exited"
    /\ last.next >= 0
    /\ Len(history) = 3
    /\ history[1].car = last.next
    /\ history[1].exitTime = 0
    /\ history[2].exitTime = 0
    /\ history[3].car = last.car
    /\ history[3].exitTime = last.now
    /\ history[3].entryTime < last.now

\* ---------------------------------------------------------------------
\* C15: every Exit of a vehicle v Parked in slot s finds an open record for
\* (v, s) and closes exactly one record, the one opened when v was given s
\* for its current stay (the most recent open record for (v, s)), with the
\* time of the call; this also when an EmergencyReset left older open
\* records for (v, s).  The branch with no matching open record is never
\* taken.
\* ---------------------------------------------------------------------
C15_ExitClosesCurrentStay ==
    [][\A c \in Cars :
          (Called("Exit", c) /\ slotOfCar[c] >= 1) =>
             LET s == slotOfCar[c]
                 open == {i \in 1..Len(history) :
                             history[i] = OpenRecord(c, s, history[i].entryTime)}
                 mine == {i \in 1..Len(history) : history[i].car = c}
                 k == Len(history') - Len(history)
             IN /\ open # {}
                /\ MinOf(open) = MinOf(mine)
                /\ history[MinOf(open)].entryTime = entryTimeOfCar[c]
                /\ last'.now # 0
                /\ history'[MinOf(open) + k] =
                      [history[MinOf(open)] EXCEPT !.exitTime = last'.now]
                /\ \A j \in (1..Len(history)) \ {MinOf(open)} :
                      history'[j + k] = history[j]
      ]_vars

\* the vehicle has left slot s, and below the record just closed lies a
\* record for the same vehicle and slot that an emergency reset left open
C15_Witness ==
    /\ last.op = "Exit"
    /\ last.outcome = "Exited"
    /\ \E i, j \in 1..Len(history) :
          /\ i < j
          /\ history[i].car = last.car
          /\ history[i].slot = last.slot
          /\ history[i].exitTime = last.now
          /\ history[i].entryTime > history[j].entryTime
          /\ history[j] = OpenRecord(last.car, last.slot, history[j].entryTime)

\* ---------------------------------------------------------------------
\* C16: the promotion step of Exit (dequeue the front waiting vehicle, then
\* take a slot from the heap) always obtains a slot: the branch that puts
\* the dequeued vehicle back at the rear is never taken, so a promotion
\* never changes the order of the queue and never loses the vehicle.
\* ---------------------------------------------------------------------
C16_PromotionGetsSlot ==
    [][\A c \in Cars :
          (Called("Exit", c) /\ slotOfCar[c] >= 1 /\ waitCount > 0) =>
             /\ last'.next \in Cars
             /\ last'.pos \in Slots
             /\ waitCount' = waitCount - 1
             /\ \A i \in 1..waitCount' : WaitSeq'[i] = WaitSeq[i + 1]
             /\ \A i \in 1..waitCount' : WaitSeq'[i] # last'.next
             /\ slotOfCar'[last'.next] = last'.pos
             /\ \A w \in WaitingCars : slotOfCar'[w] = -2 \/ w = last'.next
      ]_vars

\* a promotion out of a full queue: the vehicle behind moved up to the front
C16_Witness ==
    /\ last.op = "Exit"
    /\ last.outcome = "Exited"
    /\ last.next \in Cars
    /\ last.pos \in Slots
    /\ slotToCar[last.pos] = last.next
    /\ waitCount = WAIT_CAP - 1
    /\ waitFront # 0

\* ---------------------------------------------------------------------
\* C17: vehicles are promoted in arrival order: for two Waiting vehicles A
\* and B with A enqueued before B, B never becomes Parked while A is still
\* Waiting.  The queue keeps arrival order (a vehicle that starts to wait
\* goes behind those already waiting, and those that keep waiting keep
\* their order), and no step parks a vehicle and leaves one ahead of it
\* waiting.
\* ---------------------------------------------------------------------
PosIn(seq, c) == CHOOSE i \in 1..Len(seq) : seq[i] = c

C17_FifoPromotion ==
    [][/\ \A i, j \in 1..waitCount :
             i < j => ~ (/\ slotOfCar'[WaitSeq[j]] >= 1
                         /\ slotOfCar'[WaitSeq[i]] = -2)
       /\ \A i, j \in 1..waitCount :
             (i < j /\ slotOfCar'[WaitSeq[i]] = -2 /\ slotOfCar'[WaitSeq[j]] = -2)
                => PosIn(WaitSeq', WaitSeq[i]) < PosIn(WaitSeq', WaitSeq[j])
       /\ \A a, b \in Cars :
             (slotOfCar[a] = -2 /\ slotOfCar'[a] = -2 /\
              slotOfCar[b] # -2 /\ slotOfCar'[b] = -2)
                => PosIn(WaitSeq', a) < PosIn(WaitSeq', b)
      ]_vars

\* the vehicle just promoted has a higher id than the one still waiting: it
\* was served first because it had joined the queue first
C17_Witness ==
    /\ last.op = "Exit"
    /\ last.outcome = "Exited"
    /\ last.next \in Cars
    /\ slotOfCar[last.next] >= 1
    /\ waitCount >= 1
    /\ WaitSeq[1] < last.next
    /\ slotOfCar[WaitSeq[1]] = -2

\* ---------------------------------------------------------------------
\* C18: in every reachable state, a non-empty wait queue means no slot is
\* free: the heap is empty and all N slots are occupied.  A vehicle never
\* waits while a slot is available.
\* ---------------------------------------------------------------------
C18_WaitingMeansFull ==
    waitCount > 0 =>
        /\ heapSize = 0
        /\ FreeSet = {}
        /\ \A s \in Slots : slotToCar[s] \in Cars
        /\ WaitingCars # {}

\* vehicles still wait after a paid exit handed its slot to the front one
C18_Witness ==
    /\ waitCount > 0
    /\ heapSize = 0
    /\ last.op = "Exit"
    /\ last.outcome = "Exited"
    /\ last.fee > 0
    /\ \A s \in Slots : slotToCar[s] # -1

\* ---------------------------------------------------------------------
\* C19: in every reachable state the open history records correspond one to
\* one to the parked vehicles: there is an open record for (v, s) exactly
\* when v is Parked in s, and at most one open record per vehicle and per
\* slot; sequences with EmergencyReset included.
\* ---------------------------------------------------------------------
OpenRecords == {i \in 1..Len(history) : history[i].exitTime = 0}

C19_OpenRecordsAreParked ==
    /\ \A c \in Cars, s \in Slots :
          (\E i \in OpenRecords : history[i].car = c /\ history[i].slot = s)
             <=> slotOfCar[c] = s
    /\ \A i, j \in OpenRecords :
          (history[i].car = history[j].car \/ history[i].slot = history[j].slot)
             => i = j

\* the same statement for the behaviours in which each step is an Entry, an
\* Exit or a RegisterMonthlyPass: it can only fail after an emergencyMode
C19_HoldsWithoutEmergency ==
    [][(C19_OpenRecordsAreParked /\ last'.op # "Emergency")
          => C19_OpenRecordsAreParked']_vars

\* ---------------------------------------------------------------------
\* C20: a Waiting vehicle is eventually served: with weak fairness on Exit
\* of a Parked vehicle, no EmergencyReset and no Exit called by a waiting
\* vehicle, every vehicle that is Waiting eventually becomes Parked; a
\* vehicle at queue position k is Parked after at most k exits of parked
\* vehicles (each such exit parks position 1 and moves every other waiting
\* vehicle one position forward, and no other step moves one back).
\* ---------------------------------------------------------------------
C20_WaitingEventuallyParked ==
    /\ [](\A c \in Cars : slotOfCar[c] = -2 => <>(slotOfCar[c] >= 1))
    /\ [][\A k \in 1..waitCount :
             IF last'.op = "Exit" /\ last'.outcome = "Exited"
             THEN IF k = 1
                  THEN slotOfCar'[WaitSeq[k]] >= 1
                  ELSE /\ slotOfCar'[WaitSeq[k]] = -2
                       /\ WaitSeq'[k - 1] = WaitSeq[k]
             ELSE /\ slotOfCar'[WaitSeq[k]] = -2
                  /\ WaitSeq'[k] = WaitSeq[k]
         ]_vars

\* the vehicle that had queued at position WAIT_CAP has been parked, by the
\* last of WAIT_CAP exits
C20_Witness ==
    /\ last.op = "Exit"
    /\ last.outcome = "Exited"
    /\ last.next \in Cars
    /\ slotOfCar[last.next] >= 1
    /\ waitCount = 0
    /\ Len(history) = MAX_SLOTS + WAIT_CAP
    /\ Cardinality({i \in 1..Len(history) : history[i].exitTime # 0}) = WAIT_CAP

====
